---- MODULE Spec2Model ----
(***************************************************************************)
(* PacketMind-AI proxy engine (src-tauri/src/proxy.rs, commands.rs).       *)
(*                                                                         *)
(* Strings are sequences of one-character strings, so that to_lowercase,   *)
(* contains, starts_with, split and find are computed, not assumed.        *)
(* Option<T> is [tag |-> "None"] or [tag |-> "Some", val |-> x]; Result    *)
(* is [tag |-> "Ok", val |-> x] or [tag |-> "Err", val |-> e].             *)
(***************************************************************************)
EXTENDS Integers, Sequences, FiniteSets, TLC

(***************************************************************************)
(* Bounds of the model.                                                    *)
(***************************************************************************)
MaxConns == 2
MaxFilters == 2
MaxRules == 2
MaxStarts == 2
MaxPending == 1
MaxTogglers == 2
MaxRoutes == 2

(***************************************************************************)
(* Option / Result.                                                        *)
(***************************************************************************)
None == [tag |-> "None"]
Some(x) == [tag |-> "Some", val |-> x]
Ok(x) == [tag |-> "Ok", val |-> x]
Err(e) == [tag |-> "Err", val |-> e]

(***************************************************************************)
(* str primitives of the Rust standard library, as the code uses them.     *)
(***************************************************************************)
UpperChars == <<"A","B","C","D","E","F","G","H","I","J","K","L","M",
                "N","O","P","Q","R","S","T","U","V","W","X","Y","Z">>
LowerChars == <<"a","b","c","d","e","f","g","h","i","j","k","l","m",
                "n","o","p","q","r","s","t","u","v","w","x","y","z">>
DigitChars == {"0","1","2","3","4","5","6","7","8","9"}

IsUpper(ch) == \E i \in 1..Len(UpperChars) : UpperChars[i] = ch
IsLower(ch) == \E i \in 1..Len(LowerChars) : LowerChars[i] = ch
IsAlpha(ch) == IsUpper(ch) \/ IsLower(ch)

LowerChar(ch) ==
  IF IsUpper(ch)
    THEN LowerChars[CHOOSE i \in 1..Len(UpperChars) : UpperChars[i] = ch]
    ELSE ch

\* str::to_lowercase
to_lowercase(s) == [i \in 1..Len(s) |-> LowerChar(s[i])]

\* str::starts_with
starts_with(s, p) == Len(p) <= Len(s) /\ SubSeq(s, 1, Len(p)) = p

\* str::find: Some(0-based byte offset of the first occurrence) or None
find(s, p) ==
  LET hits == {i \in 0..(Len(s) - Len(p)) : SubSeq(s, i + 1, i + Len(p)) = p}
  IN  IF hits = {} THEN None
      ELSE Some(CHOOSE i \in hits : \A j \in hits : i <= j)

\* str::contains
contains(s, p) == find(s, p).tag = "Some"

\* s[from..] and s[..to] with 0-based offsets
SliceFrom(s, from) == SubSeq(s, from + 1, Len(s))
SliceTo(s, to) == SubSeq(s, 1, to)

\* str::split(p).next(): the text before the first occurrence of p, or all of s
split_first(s, p) ==
  LET at == find(s, p)
  IN  IF at.tag = "Some" THEN SliceTo(s, at.val) ELSE s

(***************************************************************************)
(* url::Url::parse(url).host_str(), for the URL shapes a proxy receives.   *)
(* The scheme is the text before the first ':' (a letter, then letters,    *)
(* digits, '+', '-', '.'); without one the input is a relative URL and     *)
(* parsing fails.  For http/https the authority follows any run of         *)
(* slashes and ends at '/', '?' or '#'; a port must be digits; the host    *)
(* must not be empty and is lower-cased.  Any other scheme has a host only *)
(* when "//" follows the colon, and then the host is kept as written.      *)
(***************************************************************************)
IsSchemeChar(ch) == IsAlpha(ch) \/ ch \in DigitChars \/ ch \in {"+", "-", "."}

RECURSIVE strip_slashes(_)
strip_slashes(s) ==
  IF s # <<>> /\ s[1] = "/" THEN strip_slashes(Tail(s)) ELSE s

\* the authority: everything up to the first '/', '?' or '#'
authority_of(s) ==
  LET ends == {i \in 1..Len(s) : s[i] \in {"/", "?", "#"}}
  IN  IF ends = {} THEN s
      ELSE SliceTo(s, (CHOOSE i \in ends : \A j \in ends : i <= j) - 1)

\* host[:port] -> Ok(host) or Err
host_of_authority(auth, lower) ==
  LET colon == find(auth, <<":">>)
      host  == IF colon.tag = "Some" THEN SliceTo(auth, colon.val) ELSE auth
      port  == IF colon.tag = "Some" THEN SliceFrom(auth, colon.val + 1) ELSE <<>>
  IN  IF \E i \in 1..Len(port) : port[i] \notin DigitChars THEN Err("InvalidPort")
      ELSE IF host = <<>> THEN Err("EmptyHost")
      ELSE Ok(IF lower THEN to_lowercase(host) ELSE host)

url_parse_host(url) ==
  LET colon == find(url, <<":">>)
  IN  IF colon.tag = "None" \/ colon.val = 0 THEN None
      ELSE LET scheme == to_lowercase(SliceTo(url, colon.val))
               rest   == SliceFrom(url, colon.val + 1)
           IN  IF ~IsAlpha(scheme[1])
                  \/ \E i \in 1..Len(scheme) : ~IsSchemeChar(scheme[i])
                 THEN None
               ELSE IF scheme \in {<<"h","t","t","p">>, <<"h","t","t","p","s">>}
                 THEN LET h == host_of_authority(authority_of(strip_slashes(rest)), TRUE)
                      IN  IF h.tag = "Ok" THEN Some(h.val) ELSE None
               ELSE IF starts_with(rest, <<"/", "/">>)
                 THEN LET h == host_of_authority(authority_of(SliceFrom(rest, 2)), FALSE)
                      IN  IF h.tag = "Ok" THEN Some(h.val) ELSE None
               ELSE None

(***************************************************************************)
(* ProxyServer::extract_domain_from_url                                    *)
(***************************************************************************)
S_http == <<"h","t","t","p">>
S_http_slash == <<"h","t","t","p",":","/","/">>
S_https_slash == <<"h","t","t","p","s",":","/","/">>

extract_domain_from_url(url) ==
  IF contains(url, <<":">>) /\ ~starts_with(url, S_http)
    THEN split_first(url, <<":">>)
  ELSE IF url_parse_host(url).tag = "Some"
    THEN url_parse_host(url).val
  ELSE IF starts_with(url, S_http_slash) \/ starts_with(url, S_https_slash)
    THEN LET start == find(url, <<":","/","/">>).val
             after_protocol == SliceFrom(url, start + 3)
         IN  IF find(after_protocol, <<"/">>).tag = "Some"
               THEN SliceTo(after_protocol, find(after_protocol, <<"/">>).val)
             ELSE IF find(after_protocol, <<":">>).tag = "Some"
               THEN SliceTo(after_protocol, find(after_protocol, <<":">>).val)
             ELSE after_protocol
  ELSE url

(***************************************************************************)
(* The inputs the model draws from.                                        *)
(***************************************************************************)
\* "http://API.io/v": absolute-form, upper-case host
U_abs == <<"h","t","t","p",":","/","/","A","P","I",".","i","o","/","v">>
\* "db.io:443": authority-form of a CONNECT request
U_connect == <<"d","b",".","i","o",":","4","4","3">>
\* "/v": origin-form
U_origin == <<"/","v">>

R_get == [method |-> "GET", url |-> U_abs]
R_post == [method |-> "POST", url |-> U_origin]
R_connect == [method |-> "CONNECT", url |-> U_connect]
Requests == {R_get, R_post, R_connect}

\* the strings add_filter / remove_filter are called with: "api", "IO"
F_api == <<"a","p","i">>
F_IO == <<"I","O">>
FilterStrings == {F_api, F_IO}

\* the rules add_rule is called with (RequestRule, proxy.rs:43-50)
RulePresets ==
  { [id |-> "r1", name |-> "block io", pattern |-> <<"i","o">>,
     action |-> [kind |-> "Block"], enabled |-> TRUE],
    [id |-> "r2", name |-> "mock v", pattern |-> <<"/","v">>,
     action |-> [kind |-> "Mock", response |-> "canned"], enabled |-> TRUE] }
RuleIds == {"r1", "r2", "r9"}

\* the strings extract_domain_from_url is called with, by shape: the authority
\* host:port of a CONNECT request, an absolute scheme://host[:port][path] URL,
\* and a string that is neither
H_db == <<"d","b",".","i","o">>
DomainHosts ==
  { H_db, <<"h","t","t","p","b","i","n",".","i","o">>,
    <<"A","P","I",".","i","o">>, <<"w","w","w",".","e","x",".","c","o","m">> }

DomainCase(shape, scheme, host, port, path, text) ==
  [shape |-> shape, scheme |-> scheme, host |-> host, port |-> port,
   path |-> path, text |-> text]

DomainCases ==
  LET DomainSchemes == {S_http, <<"h","t","t","p","s">>, <<"w","s","s">>}
      DomainPorts == {<<"8","0">>, <<"4","4","3">>}
      DomainPaths == {<<>>, <<"/","v">>, <<"/","v","?","x","=","1">>}
      OpaqueStrings == {<<"g","a","r","b","a","g","e">>, U_origin, <<>>}
  IN  {DomainCase("authority", <<>>, host, port, <<>>, host \o <<":">> \o port) :
         host \in DomainHosts, port \in DomainPorts}
      \cup
      {DomainCase("absolute", scheme, host, port, path,
                  scheme \o <<":","/","/">> \o host
                    \o (IF port = <<>> THEN <<>> ELSE <<":">> \o port) \o path) :
         scheme \in DomainSchemes, host \in DomainHosts,
         port \in DomainPorts \cup {<<>>}, path \in DomainPaths}
      \cup
      {DomainCase("opaque", <<>>, <<>>, <<>>, <<>>, text) : text \in OpaqueStrings}

(***************************************************************************)
(* regex::Regex::new and Regex::is_match, for the expressions built from   *)
(* literal characters, '.', the postfix '*' and an unclosed '(' or '['.    *)
(* A leading '*' has nothing to repeat and an unclosed group or class does *)
(* not parse: both are Err.  is_match looks for a match anywhere in the    *)
(* text.                                                                   *)
(***************************************************************************)
RECURSIVE strip_stars(_)
strip_stars(p) == IF p # <<>> /\ p[1] = "*" THEN strip_stars(Tail(p)) ELSE p

RECURSIVE regex_atoms(_)
regex_atoms(p) ==
  IF p = <<>> THEN <<>>
  ELSE <<[ch |-> p[1], star |-> Len(p) >= 2 /\ p[2] = "*"]>>
         \o regex_atoms(strip_stars(Tail(p)))

regex_new(p) ==
  LET Unclosed(open, close) ==
        \E i \in 1..Len(p) : p[i] = open /\ \A j \in (i + 1)..Len(p) : p[j] # close
  IN  IF (p # <<>> /\ p[1] = "*") \/ Unclosed("(", ")") \/ Unclosed("[", "]")
        THEN Err("syntax")
        ELSE Ok(regex_atoms(p))

RECURSIVE match_here(_, _)
match_here(atoms, s) ==
  LET atom_matches(ch) == atoms[1].ch = "." \/ atoms[1].ch = ch
  IN  IF atoms = <<>> THEN TRUE
      ELSE IF atoms[1].star
        THEN \E k \in 0..Len(s) :
               /\ \A i \in 1..k : atom_matches(s[i])
               /\ match_here(Tail(atoms), SubSeq(s, k + 1, Len(s)))
        ELSE /\ s # <<>>
             /\ atom_matches(s[1])
             /\ match_here(Tail(atoms), Tail(s))

is_match(atoms, s) == \E i \in 0..Len(s) : match_here(atoms, SliceFrom(s, i))

\* str::ends_with
ends_with(s, p) == Len(p) <= Len(s) /\ SubSeq(s, Len(s) - Len(p) + 1, Len(s)) = p

\* what a call comes to: a returned value, or a panic that unwinds the caller
Returned(x) == [tag |-> "Returned", val |-> x]
Panicked == [tag |-> "Panicked", val |-> FALSE]

\* &s[from..to]: a range whose start lies after its end panics
Slice(s, from, to) ==
  IF from > to \/ to > Len(s) THEN Panicked ELSE Returned(SubSeq(s, from + 1, to))

\* ai_response.rs:388-400
matches_pattern(url, pattern) ==
  IF starts_with(pattern, <<"/">>) /\ ends_with(pattern, <<"/">>)
    THEN LET regex_pattern == Slice(pattern, 1, Len(pattern) - 1)
         IN  IF regex_pattern.tag = "Panicked" THEN Panicked
             ELSE LET re == regex_new(regex_pattern.val)
                  IN  Returned(IF re.tag = "Ok" THEN is_match(re.val, url) ELSE FALSE)
    ELSE Returned(contains(url, pattern))

\* the patterns and URLs matches_pattern is called with
P_slash == <<"/">>
Delimited(text) == <<"/">> \o text \o <<"/">>
Patterns ==
  LET PlainPatterns ==
        { <<>>, F_api, <<"A","P","I">>, H_db, <<"a",".","i">>, <<"/","v">>,
          <<"v","/">>, <<"4","4","3">> }
      RegexTexts ==
        { <<>>, F_api, <<"A","P","I">>, <<"A",".","I">>, <<"d",".","*","o">>,
          <<"b","x","*",".">>, <<"a","p","*","i">>, <<".","*">>,
          <<"(">>, <<"[","a">>, <<"*","a">> }
  IN  PlainPatterns \cup {Delimited(text) : text \in RegexTexts} \cup {P_slash}
MatchUrls ==
  { U_abs, U_connect, U_origin, <<>>,
    <<"h","t","t","p",":","/","/","a","p","i",".","i","o","/","v","/">>,
    <<"a","i">> }

\* what start_time.elapsed() can read
Elapsed == {1}

Conns == 1..MaxConns
Starters == 1..MaxStarts
\* Uuid::new_v4(): a fresh value at every draw; the draw of connection task c is
\* named c.  MaxConns + 1 is an id no handler ever drew.
new_v4(c) == c
TxIds == 1..(MaxConns + 1)

(***************************************************************************)
(* State.                                                                  *)
(***************************************************************************)
VARIABLES
  transactions,   \* ProxyServer.transactions: Vec<HttpTransaction>
  filters,        \* ProxyServer.filters: Vec<String>
  rules,          \* ProxyServer.rules: Vec<RequestRule>
  favorites,      \* ProxyServer.favorites: Vec<String>
  is_running,     \* ProxyServer.is_running: bool
  filterReaders,  \* the handlers holding a read guard of `filters`
  filterQ,        \* the FIFO wait queue of the `filters` RwLock
  listener,       \* the start() task owning the bound TcpListener, 0 if none
  sysProxy,       \* the system proxy mode set through gsettings
  starts,         \* each start() task's position
  stopPc,         \* the stop() call's position
  handlers,       \* each connection task: position and handle_request's locals
  delivered,      \* the Response each connection's client was handed
  appended,       \* history: how many transactions each handler pushed
  appendLog,      \* history: ids pushed since the last clear, in push order
  stopped,        \* history: a stop() has returned and no start() was called since
  inflightAtStop, \* history: the handlers that were in flight when a stop() returned
  lastCall,       \* history: the last store or rule call and what it returned
  toggled,        \* history: parity of the toggle_favorite calls on each stored id
  fnCall,         \* history: the last call of a pure function: argument and result
  togglers,       \* each concurrent toggle_favorite call: position, argument, result
  toggleLog,      \* history: the toggle_favorite calls of togglers, as they took effect
  routing_rules   \* AIRouter.routing_rules: Vec<RoutingRule>

vars == <<transactions, filters, rules, favorites, is_running, filterReaders,
          filterQ, listener, sysProxy, starts, stopPc, handlers,
          delivered, appended, appendLog, stopped, inflightAtStop,
          lastCall, toggled, fnCall, togglers, toggleLog, routing_rules>>

storeVars == <<transactions, appendLog>>
lockVars == <<filterReaders, filterQ>>
lifeVars == <<is_running, listener, sysProxy, starts, stopPc, stopped, inflightAtStop>>
connVars == <<handlers, delivered, appended>>
sideVars == <<togglers, toggleLog, routing_rules>>
callVars == <<lastCall, toggled, fnCall, sideVars>>

\* a control operation's call record: its name, its argument (a transaction id,
\* a rule id or a SearchFilter) and, for toggle_favorite, the value returned
NoFilter == [keyword |-> <<>>, method |-> None, status |-> None, domain |-> None]
Call(op, id, rule_id, filter, val) ==
  [op |-> op, id |-> id, rule_id |-> rule_id, filter |-> filter, val |-> val]
NoCall == Call("none", 0, "", NoFilter, FALSE)

\* a pure function's call record: its name, the argument it was given and the
\* value it returned
FnCall(fn, arg, ret) == [fn |-> fn, arg |-> arg, ret |-> ret]

\* the concurrent callers of toggle_favorite (commands.rs:117-122)
Togglers == 1..MaxTogglers

NoRequest == [method |-> "", url |-> <<>>]
IdleHandler ==
  [pc |-> "none", request |-> NoRequest, is_filtered |-> FALSE,
   transaction_id |-> 0, response |-> None, ruleHit |-> None]

\* ProxyServer::new
Init ==
  /\ transactions = <<>>
  /\ filters = <<>>
  /\ rules = <<>>
  /\ favorites = <<>>
  /\ is_running = FALSE
  /\ filterReaders = {}
  /\ filterQ = <<>>
  /\ listener = 0
  /\ sysProxy = "none"
  /\ starts = [s \in Starters |-> "idle"]
  /\ stopPc = "idle"
  /\ handlers = [c \in Conns |-> IdleHandler]
  /\ delivered = [c \in Conns |-> None]
  /\ appended = [c \in Conns |-> 0]
  /\ appendLog = <<>>
  /\ stopped = FALSE
  /\ inflightAtStop = {}
  /\ lastCall = NoCall
  /\ toggled = [id \in TxIds |-> 0]
  /\ fnCall = FnCall("none", <<>>, <<>>)
  /\ togglers = [k \in Togglers |-> [pc |-> "idle", id |-> 0, ret |-> FALSE]]
  /\ toggleLog = <<>>
  /\ routing_rules = <<>>

(***************************************************************************)
(* handle_request's pure parts.                                            *)
(***************************************************************************)
\* mutant: the comparison without to_lowercase
is_filtered_exact(fs, url) ==
  IF fs # <<>>
    THEN \E i \in 1..Len(fs) :
           \/ contains(extract_domain_from_url(url), fs[i])
           \/ contains(url, fs[i])
    ELSE FALSE

\* proxy.rs:267-283
is_filtered_of(fs, url) ==
  IF fs # <<>>
    THEN \E i \in 1..Len(fs) :
           LET domain == extract_domain_from_url(url)
           IN  \/ contains(to_lowercase(domain), to_lowercase(fs[i]))
               \/ contains(to_lowercase(url), to_lowercase(fs[i]))
    ELSE FALSE

\* proxy.rs:385-420: the stub always answers Ok
ForwardHeaders ==
  { <<"Content-Type", "application/json">>, <<"X-Proxy-By", "PacketMind AI">> }

forward_status(method) ==
  CASE method = "GET" -> 200
    [] method = "POST" -> 201
    [] method = "PUT" -> 200
    [] method = "DELETE" -> 204
    [] OTHER -> 200

forward_request(request) ==
  Ok([status |-> forward_status(request.method), headers |-> ForwardHeaders,
      body |-> "Proxied by PacketMind AI"])

\* proxy.rs:310-323: the response recorded and answered for a forwarding result
response_of(response_result) ==
  IF response_result.tag = "Ok"
    THEN response_result.val
    ELSE [status |-> 502, headers |-> {}, body |-> "Proxy error"]

\* mutant: the transaction is built before the forwarding result is known
new_transaction_pending(id, request, response, duration, is_filtered) ==
  [id |-> id,
   request |-> request,
   response |-> None,
   duration |-> None,
   is_favorite |-> FALSE,
   tags |-> IF is_filtered THEN <<"filtered">> ELSE <<>>]

\* mutant: a filtered request is refused instead of forwarded
new_transaction_refusing(id, request, response, duration, is_filtered) ==
  [id |-> id,
   request |-> request,
   response |-> Some(IF is_filtered
                       THEN [status |-> 403, headers |-> {}, body |-> "Filtered"]
                       ELSE response),
   duration |-> Some(duration),
   is_favorite |-> FALSE,
   tags |-> IF is_filtered THEN <<"filtered">> ELSE <<>>]

\* proxy.rs:325-337
new_transaction(id, request, response, duration, is_filtered) ==
  [id |-> id,
   request |-> request,
   response |-> Some(response),
   duration |-> Some(duration),
   is_favorite |-> FALSE,
   tags |-> IF is_filtered THEN <<"filtered">> ELSE <<>>]

\* mutant: the transaction is dropped instead of stored
push_nothing(txs, t) == txs

\* mutant: the transaction is inserted at the front
push_front(txs, t) == <<t>> \o txs

\* proxy.rs:340: Vec::push under the write guard
push(txs, t) == Append(txs, t)

\* proxy.rs:343-352: StatusCode::from_u16(status).unwrap_or(OK), the headers copied
built_response(response) ==
  [status |-> IF response.status \in 100..999 THEN response.status ELSE 200,
   headers |-> response.headers]

(***************************************************************************)
(* The `filters` RwLock (tokio::sync::RwLock: FIFO, a queued writer holds  *)
(* back the readers behind it).  The guards of the other three locks are   *)
(* temporaries or block-local with no await inside, so their critical      *)
(* sections are single steps.                                              *)
(***************************************************************************)
ReadEntry(c) == [kind |-> "read", conn |-> c, arg |-> <<>>]
WriteEntry(k, f) == [kind |-> k, conn |-> 0, arg |-> f]
PendingWrites == Cardinality({i \in 1..Len(filterQ) : filterQ[i].kind # "read"})
PendingAdds == Cardinality({i \in 1..Len(filterQ) : filterQ[i].kind = "add"})

\* mutant: only the first occurrence is removed
RECURSIVE retain_ne_first(_, _)
retain_ne_first(fs, f) ==
  IF fs = <<>> THEN <<>>
  ELSE IF fs[1] # f THEN <<fs[1]>> \o retain_ne_first(Tail(fs), f)
  ELSE Tail(fs)

\* mutant: a retain that finds nothing to remove drops the last element
retain_ne_or_last(fs, f) ==
  IF \E i \in 1..Len(fs) : fs[i] = f THEN SelectSeq(fs, LAMBDA x : x # f)
  ELSE SubSeq(fs, 1, Len(fs) - 1)

\* Vec::retain(|f| f != filter)
RECURSIVE retain_ne(_, _)
retain_ne(fs, f) ==
  IF fs = <<>> THEN <<>>
  ELSE IF fs[1] # f THEN <<fs[1]>> \o retain_ne(Tail(fs), f)
  ELSE retain_ne(Tail(fs), f)

\* the effect of a filter write once its guard is held
apply_filter_write(fs, kind, f) ==
  IF kind = "add" THEN Append(fs, f) ELSE retain_ne(fs, f)

(***************************************************************************)
(* Lifecycle: start_proxy spawns start(); stop_proxy awaits stop().        *)
(***************************************************************************)
NextStarter == Cardinality({s \in Starters : starts[s] # "idle"}) + 1
NextConn == Cardinality({c \in Conns : handlers[c].pc # "none"}) + 1
InFlight(c) == handlers[c].pc \in {"want_filters", "forwarding", "responding"}

\* commands.rs:25-36: the task is spawned and Ok is returned at once
StartProxy(s) ==
  /\ s = NextStarter
  /\ starts[s] = "idle"
  /\ starts' = [starts EXCEPT ![s] = "binding"]
  /\ stopped' = FALSE
  /\ UNCHANGED <<transactions, filters, rules, favorites, is_running, listener,
                 sysProxy, stopPc, inflightAtStop, appendLog>>
  /\ UNCHANGED <<lockVars, connVars>>
  /\ UNCHANGED callVars

\* mutant: the socket is bound with SO_REUSEPORT, so a second bind succeeds
bind_ok_reuse(owner) == TRUE

\* TcpListener::bind: Ok only when no listener holds the port
bind_ok(owner) == owner = 0

\* proxy.rs:90-91: `?` returns the bind error
Bind(s) ==
  /\ starts[s] = "binding"
  /\ \/ /\ bind_ok(listener)
        /\ listener' = s
        /\ starts' = [starts EXCEPT ![s] = "bound"]
     \/ /\ ~bind_ok(listener)
        /\ listener' = listener
        /\ starts' = [starts EXCEPT ![s] = "addr_in_use"]
  /\ UNCHANGED <<transactions, filters, rules, favorites, is_running, sysProxy,
                 stopPc, stopped, inflightAtStop, appendLog>>
  /\ UNCHANGED <<lockVars, connVars>>
  /\ UNCHANGED callVars

\* the port is held by another process, or binding is not permitted
BindRefused(s) ==
  /\ starts[s] = "binding"
  /\ bind_ok(listener)
  /\ starts' = [starts EXCEPT ![s] = "bind_refused"]
  /\ UNCHANGED <<transactions, filters, rules, favorites, is_running, listener,
                 sysProxy, stopPc, stopped, inflightAtStop, appendLog>>
  /\ UNCHANGED <<lockVars, connVars>>
  /\ UNCHANGED callVars

\* proxy.rs:95
SetRunning(s) ==
  /\ starts[s] = "bound"
  /\ is_running' = TRUE
  /\ starts' = [starts EXCEPT ![s] = "flag_set"]
  /\ UNCHANGED <<transactions, filters, rules, favorites, listener, sysProxy,
                 stopPc, stopped, inflightAtStop, appendLog>>
  /\ UNCHANGED <<lockVars, connVars>>
  /\ UNCHANGED callVars

\* proxy.rs:98, 113-135, 214-232: gsettings sets the proxy mode; Ok is returned
StartAutoProxy(s) ==
  /\ starts[s] = "flag_set"
  /\ sysProxy' = "manual"
  /\ starts' = [starts EXCEPT ![s] = "accepting"]
  /\ UNCHANGED <<transactions, filters, rules, favorites, is_running, listener,
                 stopPc, stopped, inflightAtStop, appendLog>>
  /\ UNCHANGED <<lockVars, connVars>>
  /\ UNCHANGED callVars

\* mutant: the gsettings failure is returned by start_auto_proxy and ends start()
AutoProxyFailsPropagated(s) ==
  /\ starts[s] = "flag_set"
  /\ starts' = [starts EXCEPT ![s] = "proxy_failed"]
  /\ listener' = 0
  /\ UNCHANGED <<transactions, filters, rules, favorites, is_running,
                 sysProxy, stopPc, stopped, inflightAtStop, appendLog>>
  /\ UNCHANGED <<lockVars, connVars>>
  /\ UNCHANGED callVars

\* proxy.rs:221-231: gsettings cannot be run or fails; Ok is returned all the same
AutoProxyFails(s) ==
  /\ starts[s] = "flag_set"
  /\ starts' = [starts EXCEPT ![s] = "accepting"]
  /\ UNCHANGED <<transactions, filters, rules, favorites, is_running, listener,
                 sysProxy, stopPc, stopped, inflightAtStop, appendLog>>
  /\ UNCHANGED <<lockVars, connVars>>
  /\ UNCHANGED callVars

\* proxy.rs:100-109, 234-252, 262-266: a connection is accepted and its task
\* spawned; its request reaches handle_request, which asks for the read guard
Accept(s, r) ==
  /\ starts[s] = "accepting"
  /\ NextConn \in Conns
  /\ handlers' = [handlers EXCEPT ![NextConn].pc = "want_filters",
                                  ![NextConn].request = r]
  /\ filterQ' = Append(filterQ, ReadEntry(NextConn))
  /\ UNCHANGED <<transactions, filters, rules, favorites, filterReaders,
                 delivered, appended, appendLog>>
  /\ UNCHANGED lifeVars
  /\ UNCHANGED callVars

\* proxy.rs:100-109, 250-254: a connection is accepted and its task spawned, and
\* serve_connection fails before a request reaches the service; the error is logged
AcceptBadConn(s) ==
  /\ starts[s] = "accepting"
  /\ NextConn \in Conns
  /\ handlers' = [handlers EXCEPT ![NextConn].pc = "conn_failed"]
  /\ UNCHANGED <<transactions, filters, rules, favorites, delivered, appended,
                 appendLog>>
  /\ UNCHANGED <<lockVars, lifeVars>>
  /\ UNCHANGED callVars

\* proxy.rs:101: `?` ends start() with the accept error; the listener is dropped
AcceptFail(s) ==
  /\ starts[s] = "accepting"
  /\ starts' = [starts EXCEPT ![s] = "accept_failed"]
  /\ listener' = 0
  /\ UNCHANGED <<transactions, filters, rules, favorites, is_running, sysProxy,
                 stopPc, stopped, inflightAtStop, appendLog>>
  /\ UNCHANGED <<lockVars, connVars>>
  /\ UNCHANGED callVars

\* mutant: stop() aborts the connection tasks that are in flight
StopFlagAborting ==
  /\ stopPc = "idle"
  /\ is_running' = FALSE
  /\ stopPc' = "restoring"
  /\ inflightAtStop' = inflightAtStop \cup {c \in Conns : InFlight(c)}
  /\ handlers' = [c \in Conns |->
                    IF InFlight(c) THEN [IdleHandler EXCEPT !.pc = "conn_failed"]
                    ELSE handlers[c]]
  /\ filterReaders' = {}
  /\ filterQ' = SelectSeq(filterQ, LAMBDA e : e.kind # "read")
  /\ UNCHANGED <<transactions, filters, rules, favorites, listener, sysProxy,
                 starts, stopped, appendLog, delivered, appended>>
  /\ UNCHANGED callVars

\* proxy.rs:444: the flag is written; no task is touched
StopFlag ==
  /\ stopPc = "idle"
  /\ is_running' = FALSE
  /\ stopPc' = "restoring"
  /\ inflightAtStop' = inflightAtStop \cup {c \in Conns : InFlight(c)}
  /\ UNCHANGED <<transactions, filters, rules, favorites, listener, sysProxy,
                 starts, stopped, appendLog>>
  /\ UNCHANGED <<lockVars, connVars>>
  /\ UNCHANGED callVars

\* proxy.rs:447, 450-467, 515-524: gsettings resets the proxy mode; stop() returns
StopRestore ==
  /\ stopPc = "restoring"
  /\ sysProxy' = "none"
  /\ stopPc' = "idle"
  /\ stopped' = TRUE
  /\ UNCHANGED <<transactions, filters, rules, favorites, is_running, listener,
                 starts, inflightAtStop, appendLog>>
  /\ UNCHANGED <<lockVars, connVars>>
  /\ UNCHANGED callVars

\* proxy.rs:519-521: the gsettings result is discarded; stop() returns all the same
RestoreFails ==
  /\ stopPc = "restoring"
  /\ stopPc' = "idle"
  /\ stopped' = TRUE
  /\ UNCHANGED <<transactions, filters, rules, favorites, is_running, listener,
                 sysProxy, starts, inflightAtStop, appendLog>>
  /\ UNCHANGED <<lockVars, connVars>>
  /\ UNCHANGED callVars

\* proxy.rs:89-111: what start() has returned; the accept loop has no Ok exit
start_result(s) ==
  CASE starts[s] \in {"addr_in_use", "bind_refused"} -> Some(Err("bind"))
    [] starts[s] = "accept_failed" -> Some(Err("accept"))
    [] OTHER -> None

\* commands.rs:29-35: what start_proxy returned to its caller.  The result of
\* start() goes to eprintln! inside the spawned task.
start_proxy_result(s) ==
  IF starts[s] = "idle" THEN None ELSE Some(Ok("Proxy server started"))

(***************************************************************************)
(* Connection tasks: handle_connection and handle_request.                 *)
(***************************************************************************)
\* a lock guard: the lock it was taken on and its mode
Guard(lock, mode) == [lock |-> lock, mode |-> mode]

\* mutant: stop() binds the is_running write guard to a local that lives across
\* restore_system_proxy().await
held_at_stop_keeps_guard(pc) ==
  CASE pc \in {"forwarding", "responding"} -> {Guard("filters", "read")}
    [] pc = "restoring" -> {Guard("is_running", "write")}
    [] OTHER -> {}

\* the guards a task holds while it is suspended at pc.  Every write guard is a
\* temporary of its statement (proxy.rs:95, 340, 427, 436, 444) or a local of a
\* function that does not await again (431-432, 556-562, 576, 580-581); the read
\* guard of handle_request is a local that lives to its return (266-353).
held_at(pc) ==
  CASE pc \in {"forwarding", "responding"} -> {Guard("filters", "read")}
    [] OTHER -> {}

\* the points at which the tasks of start(), stop() and handle_request are suspended
SuspendedAt ==
  {starts[s] : s \in Starters} \cup {stopPc} \cup {handlers[c].pc : c \in Conns}

\* RequestRule (proxy.rs:43-50) has no priority field; this is the priority the
\* caller of add_rule meant each rule to have
RulePriority(rule_id) == IF rule_id = "r2" THEN 10 ELSE 5

\* history: the action kind of the rule that should decide a request for url: among
\* the enabled rules whose pattern occurs in url, the first of the highest priority
rule_hit(rs, url) ==
  LET hits == {i \in 1..Len(rs) : rs[i].enabled /\ contains(url, rs[i].pattern)}
      best == {i \in hits : \A j \in hits :
                 \/ RulePriority(rs[i].id) > RulePriority(rs[j].id)
                 \/ RulePriority(rs[i].id) = RulePriority(rs[j].id) /\ i <= j}
  IN  IF hits = {} THEN None ELSE Some(rs[CHOOSE i \in best : TRUE].action.kind)

\* mutant: handle_request takes the read guard and then asks for it a second time
AcquireFiltersReentrant(c) ==
  /\ handlers[c].pc = "want_filters"
  /\ filterQ # <<>> /\ Head(filterQ) = ReadEntry(c)
  /\ IF c \in filterReaders
       THEN /\ filterQ' = Tail(filterQ)
            /\ filterReaders' = filterReaders
            /\ handlers' = [handlers EXCEPT
                 ![c].pc = "forwarding",
                 ![c].is_filtered = is_filtered_of(filters, handlers[c].request.url),
                 ![c].transaction_id = new_v4(c),
                 ![c].ruleHit = rule_hit(rules, handlers[c].request.url)]
       ELSE /\ filterQ' = Append(Tail(filterQ), ReadEntry(c))
            /\ filterReaders' = filterReaders \cup {c}
            /\ handlers' = handlers
  /\ UNCHANGED <<transactions, filters, rules, favorites, delivered, appended,
                 appendLog>>
  /\ UNCHANGED lifeVars
  /\ UNCHANGED callVars

\* proxy.rs:266-305: the guard is granted; filters evaluated, id drawn, request built
AcquireFilters(c) ==
  /\ handlers[c].pc = "want_filters"
  /\ filterQ # <<>> /\ Head(filterQ) = ReadEntry(c)
  /\ filterQ' = Tail(filterQ)
  /\ filterReaders' = filterReaders \cup {c}
  /\ handlers' = [handlers EXCEPT
       ![c].pc = "forwarding",
       ![c].is_filtered = is_filtered_of(filters, handlers[c].request.url),
       ![c].transaction_id = new_v4(c),
       ![c].ruleHit = rule_hit(rules, handlers[c].request.url)]
  /\ UNCHANGED <<transactions, filters, rules, favorites, delivered, appended,
                 appendLog>>
  /\ UNCHANGED lifeVars
  /\ UNCHANGED callVars

\* mutant: the response is handed back first and the transaction is not pushed
ForwardAndAnswerFirst(c) ==
  /\ handlers[c].pc = "forwarding"
  /\ LET response == response_of(forward_request(handlers[c].request))
     IN  /\ delivered' = [delivered EXCEPT ![c] = Some(built_response(response))]
         /\ handlers' = [handlers EXCEPT ![c].pc = "responding",
                                         ![c].response = Some(response)]
  /\ UNCHANGED <<transactions, filters, rules, favorites, appended, appendLog>>
  /\ UNCHANGED <<lockVars, lifeVars>>
  /\ UNCHANGED callVars

\* proxy.rs:308-340: forward, build the transaction, push it under the write guard
ForwardAndStore(c) ==
  /\ handlers[c].pc = "forwarding"
  /\ \E duration \in Elapsed :
       LET response == response_of(forward_request(handlers[c].request))
           transaction == new_transaction(handlers[c].transaction_id,
                                          handlers[c].request, response, duration,
                                          handlers[c].is_filtered)
       IN  /\ transactions' = push(transactions, transaction)
           /\ appendLog' = Append(appendLog, transaction.id)
           /\ handlers' = [handlers EXCEPT ![c].pc = "responding",
                                           ![c].response = Some(response)]
  /\ appended' = [appended EXCEPT ![c] = @ + Len(transactions') - Len(transactions)]
  /\ UNCHANGED <<filters, rules, favorites, delivered>>
  /\ UNCHANGED <<lockVars, lifeVars>>
  /\ UNCHANGED callVars

\* mutant: the response is returned while the read guard is kept
RespondKeepsGuard(c) ==
  /\ handlers[c].pc = "responding"
  /\ delivered' = [delivered EXCEPT ![c] = Some(built_response(handlers[c].response.val))]
  /\ handlers' = [handlers EXCEPT ![c] = [IdleHandler EXCEPT !.pc = "done"]]
  /\ UNCHANGED <<transactions, filters, rules, favorites, appended, appendLog>>
  /\ UNCHANGED <<lockVars, lifeVars>>
  /\ UNCHANGED callVars

\* proxy.rs:342-353: the response is returned; the read guard and the locals drop
Respond(c) ==
  /\ handlers[c].pc = "responding"
  /\ delivered' = [delivered EXCEPT ![c] = Some(built_response(handlers[c].response.val))]
  /\ filterReaders' = filterReaders \ {c}
  /\ handlers' = [handlers EXCEPT ![c] = [IdleHandler EXCEPT !.pc = "done"]]
  /\ UNCHANGED <<transactions, filters, rules, favorites, filterQ, appended,
                 appendLog>>
  /\ UNCHANGED lifeVars
  /\ UNCHANGED callVars

(***************************************************************************)
(* Control surface.                                                        *)
(***************************************************************************)
\* proxy.rs:426-433: add_filter / remove_filter ask for the write guard
FilterWrite(kind, f) ==
  /\ filterQ # <<>> \/ filterReaders # {} => PendingWrites < MaxPending
  /\ kind = "add" => Len(filters) + PendingAdds < MaxFilters
  /\ IF filterQ = <<>> /\ filterReaders = {}
       THEN /\ filters' = apply_filter_write(filters, kind, f)
            /\ filterQ' = filterQ
       ELSE /\ filterQ' = Append(filterQ, WriteEntry(kind, f))
            /\ filters' = filters
  /\ UNCHANGED <<transactions, rules, favorites, filterReaders, appendLog>>
  /\ UNCHANGED <<connVars, lifeVars>>
  /\ UNCHANGED callVars

AddFilter(f) == FilterWrite("add", f)
RemoveFilter(f) == FilterWrite("remove", f)

\* the queued writer is granted the guard once every reader has released
FilterWriteGranted ==
  /\ filterQ # <<>> /\ Head(filterQ).kind # "read"
  /\ filterReaders = {}
  /\ filters' = apply_filter_write(filters, Head(filterQ).kind, Head(filterQ).arg)
  /\ filterQ' = Tail(filterQ)
  /\ UNCHANGED <<transactions, rules, favorites, filterReaders, appendLog>>
  /\ UNCHANGED <<connVars, lifeVars>>
  /\ UNCHANGED callVars

\* proxy.rs:270, 355-383: extract_domain_from_url applied to a string
ExtractDomain(case) ==
  /\ fnCall' = FnCall("extract_domain_from_url", case,
                      extract_domain_from_url(case.text))
  /\ UNCHANGED <<transactions, filters, rules, favorites, appendLog, lastCall,
                 toggled>>
  /\ UNCHANGED <<lockVars, connVars, lifeVars>>
  /\ UNCHANGED sideVars

\* ai_response.rs:376, 388-400: matches_pattern applied to a URL and a pattern
MatchesPattern(url, pattern) ==
  /\ fnCall' = FnCall("matches_pattern", [url |-> url, pattern |-> pattern],
                      matches_pattern(url, pattern))
  /\ UNCHANGED <<transactions, filters, rules, favorites, appendLog, lastCall,
                 toggled>>
  /\ UNCHANGED <<lockVars, connVars, lifeVars>>
  /\ UNCHANGED sideVars

\* ai_response.rs:354-358, 15-20: the rules handed to add_rule
RoutingRule(pattern, response_type, priority) ==
  [pattern |-> pattern, response_type |-> response_type, priority |-> priority]
RouteRules ==
  {RoutingRule(pattern, response_type, priority) :
     pattern \in {U_origin, Delimited(<<"A",".","I">>), P_slash},
     response_type \in {"Mock", "ErrorSimulation"},
     priority \in {1, 2}}
RouteUrls == {U_abs, U_origin, U_connect}

\* ai_response.rs:374, 385: config.response_type of the router's own generator
ConfiguredType == "Enhanced"

\* ai_response.rs:370: slice::sort_by(|a, b| b.priority.cmp(&a.priority)), a
\* stable sort: each element goes behind the elements that do not compare
\* greater than it, that is, behind those of the same or a higher priority
RECURSIVE insert_by_priority(_, _)
insert_by_priority(sorted, rule) ==
  IF sorted = <<>> THEN <<rule>>
  ELSE IF sorted[1].priority >= rule.priority
    THEN <<sorted[1]>> \o insert_by_priority(Tail(sorted), rule)
    ELSE <<rule>> \o sorted

RECURSIVE sort_by_priority_desc(_)
sort_by_priority_desc(rs) ==
  IF rs = <<>> THEN <<>>
  ELSE insert_by_priority(sort_by_priority_desc(SubSeq(rs, 1, Len(rs) - 1)), rs[Len(rs)])

\* ai_response.rs:368-371: AIRouter::add_rule
router_add_rule(rs, rule) == sort_by_priority_desc(Append(rs, rule))

AddRoutingRule(rule) ==
  /\ Len(routing_rules) < MaxRoutes
  /\ routing_rules' = router_add_rule(routing_rules, rule)
  /\ UNCHANGED <<transactions, filters, rules, favorites, appendLog, lastCall,
                 toggled, fnCall, togglers, toggleLog>>
  /\ UNCHANGED <<lockVars, connVars, lifeVars>>

\* ai_response.rs:373-386, 44: the response type generate_response dispatches
\* on; a panic in matches_pattern unwinds the call
RECURSIVE route_request(_, _)
route_request(rs, url) ==
  IF rs = <<>> THEN Returned(ConfiguredType)
  ELSE LET hit == matches_pattern(url, rs[1].pattern)
       IN  IF hit.tag = "Panicked" THEN Panicked
           ELSE IF hit.val THEN Returned(rs[1].response_type)
           ELSE route_request(Tail(rs), url)

RouteRequest(url) ==
  /\ fnCall' = FnCall("route_request", [url |-> url], route_request(routing_rules, url))
  /\ UNCHANGED <<transactions, filters, rules, favorites, appendLog, lastCall,
                 toggled>>
  /\ UNCHANGED <<lockVars, connVars, lifeVars>>
  /\ UNCHANGED sideVars

\* proxy.rs:422-424
get_transactions == transactions

\* a read leaves every field alone.  The value it returns is its operator in the
\* state of the call; the call record keeps the name and the argument.
GetTransactions ==
  /\ lastCall' = Call("get_transactions", 0, "", NoFilter, FALSE)
  /\ UNCHANGED <<transactions, filters, rules, favorites, appendLog, toggled, fnCall>>
  /\ UNCHANGED sideVars
  /\ UNCHANGED <<lockVars, connVars, lifeVars>>

\* the SearchFilter values search_transactions is called with
SearchFilters ==
  { NoFilter,
    [NoFilter EXCEPT !.keyword = <<"i","o">>],
    [NoFilter EXCEPT !.keyword = <<"P","O","S","T">>],
    [NoFilter EXCEPT !.method = Some("GET")],
    [NoFilter EXCEPT !.status = Some(201)],
    [NoFilter EXCEPT !.domain = Some(<<"A","P","I">>)],
    [NoFilter EXCEPT !.method = Some("GET"), !.status = Some(404)] }

\* method names as character strings, for contains()
MethodChars(m) ==
  CASE m = "GET" -> <<"G","E","T">>
    [] m = "POST" -> <<"P","O","S","T">>
    [] m = "CONNECT" -> <<"C","O","N","N","E","C","T">>
    [] OTHER -> <<>>

\* mutant: an absent method constraint matches no transaction
search_matches_absent_fails(t, filter) ==
  /\ \/ filter.keyword = <<>>
     \/ contains(t.request.url, filter.keyword)
     \/ contains(MethodChars(t.request.method), filter.keyword)
  /\ IF filter.method.tag = "Some" THEN t.request.method = filter.method.val ELSE FALSE

\* mutant: one constraint that holds is enough
search_matches_any(t, filter) ==
  \/ filter.keyword # <<>> /\ contains(t.request.url, filter.keyword)
  \/ filter.keyword # <<>> /\ contains(MethodChars(t.request.method), filter.keyword)
  \/ filter.method.tag = "Some" /\ t.request.method = filter.method.val
  \/ /\ filter.status.tag = "Some"
     /\ t.response.tag = "Some"
     /\ t.response.val.status = filter.status.val
  \/ filter.domain.tag = "Some" /\ contains(t.request.url, filter.domain.val)
  \/ filter = NoFilter

\* proxy.rs:531-548
search_matches(t, filter) ==
  LET matches_keyword ==
        \/ filter.keyword = <<>>
        \/ contains(t.request.url, filter.keyword)
        \/ contains(MethodChars(t.request.method), filter.keyword)
      matches_method ==
        IF filter.method.tag = "Some" THEN t.request.method = filter.method.val
        ELSE TRUE
      matches_status ==
        IF filter.status.tag = "Some"
          THEN IF t.response.tag = "Some" THEN t.response.val.status = filter.status.val
               ELSE FALSE
        ELSE TRUE
      matches_domain ==
        IF filter.domain.tag = "Some" THEN contains(t.request.url, filter.domain.val)
        ELSE TRUE
  IN  matches_keyword /\ matches_method /\ matches_status /\ matches_domain

\* proxy.rs:527-552
search_transactions(filter) ==
  SelectSeq(transactions, LAMBDA t : search_matches(t, filter))

SearchTransactions(filter) ==
  /\ lastCall' = Call("search_transactions", 0, "", filter, FALSE)
  /\ UNCHANGED <<transactions, filters, rules, favorites, appendLog, toggled, fnCall>>
  /\ UNCHANGED sideVars
  /\ UNCHANGED <<lockVars, connVars, lifeVars>>

\* mutant: the favorites survive a clear
clear_keep_favorites(txs) == SelectSeq(txs, LAMBDA t : t.is_favorite)

\* proxy.rs:436: Vec::clear
clear(txs) == <<>>

\* proxy.rs:435-437
ClearTransactions ==
  /\ transactions' = clear(transactions)
  /\ appendLog' = <<>>
  /\ lastCall' = Call("clear_transactions", 0, "", NoFilter, FALSE)
  /\ toggled' = [id \in TxIds |-> 0]
  /\ UNCHANGED fnCall
  /\ UNCHANGED sideVars
  /\ UNCHANGED <<filters, rules, favorites>>
  /\ UNCHANGED <<lockVars, connVars, lifeVars>>

\* proxy.rs:439-441
is_running_read == is_running

\* mutant: the flag is set instead of negated
toggle_favorite_set(txs, id) ==
  [i \in 1..Len(txs) |->
     IF txs[i].id = id /\ \A j \in 1..(i - 1) : txs[j].id # id
       THEN [txs[i] EXCEPT !.is_favorite = TRUE]
       ELSE txs[i]]

\* mutant: an id that is not found falls back to the first transaction
toggle_favorite_fallback(txs, id) ==
  [i \in 1..Len(txs) |->
     IF \/ txs[i].id = id /\ \A j \in 1..(i - 1) : txs[j].id # id
        \/ i = 1 /\ \A j \in 1..Len(txs) : txs[j].id # id
       THEN [txs[i] EXCEPT !.is_favorite = ~txs[i].is_favorite]
       ELSE txs[i]]

\* mutant: every transaction's flag is negated
toggle_favorite_all(txs, id) ==
  [i \in 1..Len(txs) |-> [txs[i] EXCEPT !.is_favorite = ~txs[i].is_favorite]]

\* proxy.rs:556-559: iter_mut().find(|t| t.id == transaction_id), the flag negated
toggle_favorite(txs, id) ==
  [i \in 1..Len(txs) |->
     IF txs[i].id = id /\ \A j \in 1..(i - 1) : txs[j].id # id
       THEN [txs[i] EXCEPT !.is_favorite = ~txs[i].is_favorite]
       ELSE txs[i]]

\* proxy.rs:559-562: the flag as written, or false when no transaction has the id
toggle_favorite_ret(txs, id) ==
  LET found == {i \in 1..Len(txs) : txs[i].id = id}
  IN  IF found # {}
        THEN toggle_favorite(txs, id)[CHOOSE i \in found : \A j \in found : i <= j].is_favorite
        ELSE FALSE

\* proxy.rs:555-563
ToggleFavorite(id) ==
  /\ transactions' = toggle_favorite(transactions, id)
  /\ lastCall' = Call("toggle_favorite", id, "", NoFilter, toggle_favorite_ret(transactions, id))
  /\ toggled' = IF \E i \in 1..Len(transactions) : transactions[i].id = id
                  THEN [toggled EXCEPT ![id] = 1 - @]
                  ELSE toggled
  /\ UNCHANGED fnCall
  /\ UNCHANGED sideVars
  /\ UNCHANGED <<filters, rules, favorites, appendLog>>
  /\ UNCHANGED <<lockVars, connVars, lifeVars>>

\* commands.rs:117-122, proxy.rs:555-556: toggle_favorite is called and asks for
\* the write guard of the store
ToggleCall(k, id) ==
  /\ togglers[k].pc = "idle"
  /\ togglers' = [togglers EXCEPT ![k] = [pc |-> "waiting", id |-> id, ret |-> FALSE]]
  /\ UNCHANGED <<transactions, filters, rules, favorites, appendLog, lastCall,
                 toggled, fnCall, toggleLog, routing_rules>>
  /\ UNCHANGED <<lockVars, connVars, lifeVars>>

\* mutant: the flag is read under a read guard, and its negation is written
\* under a write guard taken afterwards
ToggleEffectReadThenWrite(k) ==
  LET id == togglers[k].id
      found == \E i \in 1..Len(transactions) : transactions[i].id = id
      seen == found /\ transactions[CHOOSE i \in 1..Len(transactions) :
                                      transactions[i].id = id].is_favorite
      written == togglers[k].pc = "read_false"
  IN  /\ togglers[k].pc \in {"waiting", "read_true", "read_false"}
      /\ IF togglers[k].pc = "waiting"
           THEN /\ togglers' = [togglers EXCEPT
                                  ![k].pc = IF seen THEN "read_true" ELSE "read_false"]
                /\ UNCHANGED <<transactions, toggleLog, toggled>>
           ELSE /\ transactions' =
                     [i \in 1..Len(transactions) |->
                        IF transactions[i].id = id
                          THEN [transactions[i] EXCEPT !.is_favorite = written]
                          ELSE transactions[i]]
                /\ togglers' = [togglers EXCEPT ![k].pc = "returned",
                                                ![k].ret = found /\ written]
                /\ toggleLog' = Append(toggleLog, [id |-> id, found |-> found, ret |-> found /\ written])
                /\ toggled' = IF found THEN [toggled EXCEPT ![id] = 1 - @] ELSE toggled
      /\ UNCHANGED <<filters, rules, favorites, appendLog, lastCall, fnCall,
                     routing_rules>>
      /\ UNCHANGED <<lockVars, connVars, lifeVars>>

\* proxy.rs:556-563: the write guard is granted; the transaction is looked up, its
\* flag negated and returned, all under the guard
ToggleEffect(k) ==
  LET id == togglers[k].id
      found == \E i \in 1..Len(transactions) : transactions[i].id = id
      ret == toggle_favorite_ret(transactions, id)
  IN  /\ togglers[k].pc = "waiting"
      /\ transactions' = toggle_favorite(transactions, id)
      /\ togglers' = [togglers EXCEPT ![k].pc = "returned", ![k].ret = ret]
      /\ toggleLog' = Append(toggleLog, [id |-> id, found |-> found, ret |-> ret])
      /\ toggled' = IF found THEN [toggled EXCEPT ![id] = 1 - @] ELSE toggled
      /\ UNCHANGED <<filters, rules, favorites, appendLog, lastCall, fnCall,
                     routing_rules>>
      /\ UNCHANGED <<lockVars, connVars, lifeVars>>

\* mutant: the favorites are collected newest first
RECURSIVE select_favorites_newest_first(_)
select_favorites_newest_first(txs) ==
  IF txs = <<>> THEN <<>>
  ELSE IF txs[1].is_favorite
    THEN select_favorites_newest_first(Tail(txs)) \o <<txs[1]>>
  ELSE select_favorites_newest_first(Tail(txs))

\* Iterator::filter(pred).cloned().collect()
RECURSIVE select_favorites(_)
select_favorites(txs) ==
  IF txs = <<>> THEN <<>>
  ELSE IF txs[1].is_favorite THEN <<txs[1]>> \o select_favorites(Tail(txs))
  ELSE select_favorites(Tail(txs))

\* proxy.rs:565-572
get_favorites == select_favorites(transactions)

GetFavorites ==
  /\ lastCall' = Call("get_favorites", 0, "", NoFilter, FALSE)
  /\ UNCHANGED <<transactions, filters, rules, favorites, appendLog, toggled, fnCall>>
  /\ UNCHANGED sideVars
  /\ UNCHANGED <<lockVars, connVars, lifeVars>>

\* serde_json::Value::Null
JsonNull == [tag |-> "Null"]

\* Vec<u8>::len of the bodies the handlers build
body_len(body) ==
  CASE body = "Proxied by PacketMind AI" -> 24
    [] body = "Proxy error" -> 11
    [] OTHER -> 0

\* proxy.rs:606-609: HashMap<String, String> as name/value objects
har_headers(headers) == {[name |-> h[1], value |-> h[2]] : h \in headers}

\* proxy.rs:594-614: one entry; the request of handle_request has an empty body.
\* Timestamps and request headers are not part of the model's requests.
har_entry(t) ==
  [time |-> IF t.duration.tag = "Some" THEN t.duration.val ELSE 0,
   request |-> [method |-> t.request.method,
                url |-> t.request.url,
                headers |-> {},
                bodySize |-> 0],
   response |-> IF t.response.tag = "Some"
                  THEN [status |-> t.response.val.status,
                        headers |-> har_headers(t.response.val.headers),
                        bodySize |-> body_len(t.response.val.body)]
                  ELSE JsonNull]

\* mutant: only the transactions after the first are exported
har_entries_tail(txs) ==
  [i \in 1..(Len(txs) - 1) |-> har_entry(txs[i + 1])]

\* proxy.rs:591-616: transactions.iter().map(..).collect()
har_entries(txs) == [i \in 1..Len(txs) |-> har_entry(txs[i])]

\* proxy.rs:589-630: the document handed to serde_json::to_string_pretty
export_har ==
  [log |-> [version |-> "1.2",
            creator |-> [name |-> "PacketMind AI", version |-> "1.0.0"],
            entries |-> har_entries(transactions)]]

ExportHar ==
  /\ lastCall' = Call("export_har", 0, "", NoFilter, FALSE)
  /\ UNCHANGED <<transactions, filters, rules, favorites, appendLog, toggled, fnCall>>
  /\ UNCHANGED sideVars
  /\ UNCHANGED <<lockVars, connVars, lifeVars>>

\* proxy.rs:575-577
add_rule(rs, rule) == Append(rs, rule)

AddRule(rule) ==
  /\ Len(rules) < MaxRules
  /\ rules' = add_rule(rules, rule)
  /\ UNCHANGED <<transactions, filters, favorites, appendLog>>
  /\ UNCHANGED <<lockVars, connVars, lifeVars>>
  /\ UNCHANGED callVars

\* proxy.rs:579-582
RECURSIVE retain_rules(_, _)
retain_rules(rs, rule_id) ==
  IF rs = <<>> THEN <<>>
  ELSE IF rs[1].id # rule_id THEN <<rs[1]>> \o retain_rules(Tail(rs), rule_id)
  ELSE retain_rules(Tail(rs), rule_id)

RemoveRule(rule_id) ==
  /\ rules' = retain_rules(rules, rule_id)
  /\ lastCall' = Call("remove_rule", 0, rule_id, NoFilter, FALSE)
  /\ UNCHANGED <<transactions, filters, favorites, appendLog, toggled, fnCall>>
  /\ UNCHANGED sideVars
  /\ UNCHANGED <<lockVars, connVars, lifeVars>>

\* proxy.rs:584-586
get_rules == rules

(***************************************************************************)
(* Specifications.  Next is the whole system.  The other specifications    *)
(* drive the same state machine with a part of the control surface, so     *)
(* that each can be explored exhaustively: the operations left out of one  *)
(* are not called in it.                                                   *)
(***************************************************************************)
Startup(S) ==
  \/ \E s \in S : StartProxy(s)
  \/ \E s \in S : Bind(s)
  \/ \E s \in S : SetRunning(s)
  \/ \E s \in S : StartAutoProxy(s)

HandlingOf(Rs) ==
  \/ \E s \in Starters, r \in Rs : Accept(s, r)
  \/ \E c \in Conns : AcquireFilters(c)
  \/ \E c \in Conns : ForwardAndStore(c)
  \/ \E c \in Conns : Respond(c)

Failures ==
  \/ \E s \in Starters : BindRefused(s)
  \/ \E s \in Starters : AutoProxyFails(s)
  \/ RestoreFails
  \/ \E s \in Starters : AcceptFail(s)
  \/ \E s \in Starters : AcceptBadConn(s)

Stopping ==
  \/ StopFlag
  \/ StopRestore

FilterOps ==
  \/ \E f \in FilterStrings : AddFilter(f)
  \/ \E f \in FilterStrings : RemoveFilter(f)
  \/ FilterWriteGranted

StoreOps ==
  \/ ClearTransactions
  \/ \E id \in TxIds : ToggleFavorite(id)

QueryOps ==
  \/ GetTransactions
  \/ \E filter \in SearchFilters : SearchTransactions(filter)
  \/ GetFavorites
  \/ ExportHar

RuleOps ==
  \/ \E rule \in RulePresets : AddRule(rule)
  \/ \E rule_id \in RuleIds : RemoveRule(rule_id)

Next ==
  \/ Startup(Starters)
  \/ HandlingOf(Requests)
  \/ Failures
  \/ Stopping
  \/ FilterOps
  \/ StoreOps
  \/ QueryOps
  \/ RuleOps

Spec == Init /\ [][Next]_vars

\* one start(), live traffic and the store's operations
NextStore ==
  \/ Startup({1})
  \/ HandlingOf(Requests)
  \/ StoreOps

SpecStore == Init /\ [][NextStore]_vars

\* one start(), GET and POST traffic, the store's operations and its reads
NextQuery ==
  \/ Startup({1})
  \/ HandlingOf({R_get, R_post})
  \/ StoreOps
  \/ QueryOps

SpecQuery == Init /\ [][NextQuery]_vars

\* one start(), GET traffic, and writes of every collection: the store cleared
\* and toggled, a filter added, a rule added
R_block == CHOOSE rule \in RulePresets : rule.id = "r1"
FrameIds == {new_v4(1), new_v4(2)}

NextFrame ==
  \/ Startup({1})
  \/ HandlingOf({R_get})
  \/ ClearTransactions
  \/ \E id \in FrameIds : ToggleFavorite(id)
  \/ AddFilter(F_api)
  \/ FilterWriteGranted
  \/ AddRule(R_block)

SpecFrame == Init /\ [][NextFrame]_vars

\* one start(), live traffic and the filter list
NextFilter ==
  \/ Startup({1})
  \/ HandlingOf({R_get, R_connect})
  \/ FilterOps

SpecFilter == Init /\ [][NextFilter]_vars

\* one start(), live traffic and the rule list
NextRules ==
  \/ Startup({1})
  \/ HandlingOf(Requests)
  \/ RuleOps

SpecRules == Init /\ [][NextRules]_vars

\* one start(), live traffic, the filter list behind its lock and the rule list
NextControl ==
  \/ Startup({1})
  \/ HandlingOf({R_get})
  \/ AddFilter(F_api)
  \/ \E f \in FilterStrings : RemoveFilter(f)
  \/ FilterWriteGranted
  \/ AddRule(R_block)
  \/ \E rule_id \in {R_block.id, "r9"} : RemoveRule(rule_id)

SpecControl == Init /\ [][NextControl]_vars

\* extract_domain_from_url on its own, over the URL shapes
NextDomain == \E case \in DomainCases : ExtractDomain(case)

SpecDomain == Init /\ [][NextDomain]_vars

\* one start(), GET traffic and concurrent toggle_favorite calls
NextToggle ==
  \/ Startup({1})
  \/ HandlingOf({R_get})
  \/ \E k \in Togglers, id \in FrameIds : ToggleCall(k, id)
  \/ \E k \in Togglers : ToggleEffect(k)

SpecToggle == Init /\ [][NextToggle]_vars

\* the rule patterns of the router, matched against request URLs
NextPattern == \E url \in MatchUrls, pattern \in Patterns : MatchesPattern(url, pattern)

SpecPattern == Init /\ [][NextPattern]_vars

\* the router: rules are added and requests are routed
NextRoute ==
  \/ \E rule \in RouteRules : AddRoutingRule(rule)
  \/ \E url \in RouteUrls : RouteRequest(url)

SpecRoute == Init /\ [][NextRoute]_vars

\* the lifecycle: repeated start(), stop(), failures, live traffic
NextLife ==
  \/ Startup(Starters)
  \/ HandlingOf({R_get})
  \/ Failures
  \/ Stopping

SpecLife == Init /\ [][NextLife]_vars

\* one start(), live traffic and stop()
NextStop ==
  \/ Startup({1})
  \/ HandlingOf({R_get, R_post})
  \/ Stopping

\* tokio polls every spawned task that can make progress, and the RwLock queue is
\* FIFO: a connection task's next step is taken once it is possible
SpecStopFair ==
  /\ Init /\ [][NextStop]_vars
  /\ \A c \in Conns :
       /\ WF_vars(AcquireFilters(c))
       /\ WF_vars(ForwardAndStore(c))
       /\ WF_vars(Respond(c))

\* one start(), GET traffic, add_filter calls and stop()
NextLive ==
  \/ Startup({1})
  \/ HandlingOf({R_get})
  \/ AddFilter(F_api)
  \/ FilterWriteGranted
  \/ Stopping

\* the read guard can be granted to c: c waits at the head of the queue
ReadGrantable(c) ==
  /\ handlers[c].pc = "want_filters"
  /\ filterQ # <<>>
  /\ Head(filterQ) = ReadEntry(c)

\* tokio polls every task that can make progress, the RwLock serves its waiters
\* in FIFO order, and gsettings returns: a connection task's next step, the grant
\* of the write guard to the waiter at the head of the queue and the return of
\* stop() are taken once they are possible.  The first conjunct is the weak
\* fairness of AcquireFilters(c) with its enabling condition written out.
SpecLiveFair ==
  /\ Init /\ [][NextLive]_vars
  /\ \A c \in Conns :
       /\ []<>(~ReadGrantable(c)) \/ []<><<AcquireFilters(c)>>_vars
       /\ WF_vars(ForwardAndStore(c))
       /\ WF_vars(Respond(c))
  /\ WF_vars(FilterWriteGranted)
  /\ WF_vars(StopRestore)

(***************************************************************************)
(* Properties.                                                             *)
(***************************************************************************)
Stored(id) == {i \in 1..Len(transactions) : transactions[i].id = id}
Tagged(t) == \E k \in 1..Len(t.tags) : t.tags[k] = "filtered"

\* C1: every request handle_request processes has exactly one transaction pushed to
\* the store: none before the push, one from the push on, never two; the response
\* recorded is the response answered; and for a forwarding error that response is
\* the synthesized 502.
C1_ExactlyOneTransaction ==
  /\ \A c \in Conns :
       /\ handlers[c].pc \in {"none", "want_filters", "forwarding", "conn_failed"}
            => appended[c] = 0
       /\ handlers[c].pc \in {"responding", "done"} => appended[c] = 1
       /\ handlers[c].pc = "responding" =>
            \A i \in Stored(handlers[c].transaction_id) :
              transactions[i].response = handlers[c].response
  /\ response_of(Err("connection refused")).status = 502

C1_Witness ==
  \E c \in Conns :
    /\ handlers[c].pc = "done"
    /\ appended[c] = 1
    /\ delivered[c].tag = "Some"
    /\ Stored(new_v4(c)) # {}

\* C2: get_transactions() returns the transactions in the order their pushes took
\* effect since the last clear, none lost or duplicated, with pairwise distinct ids.
C2_AppendOrder ==
  /\ Len(get_transactions) = Len(appendLog)
  /\ \A i \in 1..Len(get_transactions) : get_transactions[i].id = appendLog[i]
  /\ \A i, j \in 1..Len(get_transactions) :
       i # j => get_transactions[i].id # get_transactions[j].id

\* two handlers pushed, the later-accepted one first
C2_Witness ==
  /\ Len(get_transactions) = 2
  /\ get_transactions[1].id = new_v4(2)
  /\ get_transactions[2].id = new_v4(1)

\* C3: every transaction a reader gets from get_transactions, search_transactions or
\* get_favorites has a response and a duration, whatever the handlers are doing.
FullyFormed(result) ==
  \A i \in 1..Len(result) :
    result[i].response.tag = "Some" /\ result[i].duration.tag = "Some"

C3_ReadersSeeFullyFormed ==
  /\ FullyFormed(get_transactions)
  /\ FullyFormed(get_favorites)
  /\ \A filter \in SearchFilters : FullyFormed(search_transactions(filter))

\* the readers get something while a handler is between its push and its return and
\* another has not pushed yet
C3_Witness ==
  /\ get_favorites # <<>>
  /\ search_transactions([NoFilter EXCEPT !.status = Some(201)]) # <<>>
  /\ \E c \in Conns : handlers[c].pc = "forwarding"

\* C4: a transaction is tagged "filtered" exactly when, while its request was handled
\* (the handler holds the filter list's read guard), the list was not empty and some
\* filter occurred, ignoring case, in the extracted domain or in the URL.
OccursIgnoringCase(p, str) ==
  \E k \in 0..(Len(str) - Len(p)) :
    \A i \in 1..Len(p) : LowerChar(str[k + i]) = LowerChar(p[i])

ShouldTag(fs, url) ==
  /\ fs # <<>>
  /\ LET domain == extract_domain_from_url(url)
     IN  \E i \in 1..Len(fs) :
           \/ OccursIgnoringCase(fs[i], domain)
           \/ OccursIgnoringCase(fs[i], url)

C4_FilteredTag ==
  \A c \in Conns :
    handlers[c].pc \in {"forwarding", "responding"} =>
      LET should == ShouldTag(filters, handlers[c].request.url)
      IN  /\ handlers[c].is_filtered <=> should
          /\ handlers[c].pc = "responding" =>
               /\ Stored(handlers[c].transaction_id) # {}
               /\ \A i \in Stored(handlers[c].transaction_id) :
                    /\ Tagged(transactions[i]) <=> should
                    /\ transactions[i].tags \in {<<>>, <<"filtered">>}

\* "api" tags "http://API.io/v"; with the same list "db.io:443" stays untagged
C4_Witness ==
  /\ filters = <<F_api>>
  /\ \E c, d \in Conns :
       /\ handlers[c].pc = "responding" /\ handlers[c].request = R_get
       /\ \E i \in Stored(handlers[c].transaction_id) : Tagged(transactions[i])
       /\ handlers[d].pc = "responding" /\ handlers[d].request = R_connect
       /\ \E i \in Stored(handlers[d].transaction_id) : ~Tagged(transactions[i])

\* C5: filtering is passive: two transactions of the same request carry the same
\* response, and their clients were handed the same status and headers, whether or
\* not a filter matched; a tagged transaction has a response.
C5_FilteringIsPassive ==
  \A i, j \in 1..Len(transactions) :
    LET t == transactions[i]
        u == transactions[j]
    IN  /\ t.response.tag = "Some"
        /\ t.request = u.request =>
             /\ t.response = u.response
             /\ delivered[t.id].tag = "Some" /\ delivered[u.id].tag = "Some"
                  => delivered[t.id] = delivered[u.id]
        /\ delivered[t.id].tag = "Some" =>
             /\ delivered[t.id].val.status = t.response.val.status
             /\ delivered[t.id].val.headers = t.response.val.headers

\* the same request handled once with a matching filter and once with none
C5_Witness ==
  \E i, j \in 1..Len(transactions) :
    /\ transactions[i].request = transactions[j].request
    /\ Tagged(transactions[i]) /\ ~Tagged(transactions[j])
    /\ delivered[transactions[i].id].tag = "Some"
    /\ delivered[transactions[j].id].tag = "Some"

\* C6: the rule that should decide a request (the first enabled rule of the highest
\* priority whose pattern occurs in the URL) determines the response in place of the
\* default forwarded one, and a Block rule yields a refusal.
C6_RuleDecidesResponse ==
  \A c \in Conns :
    handlers[c].pc = "responding" /\ handlers[c].ruleHit.tag = "Some" =>
      /\ handlers[c].response.val # response_of(forward_request(handlers[c].request))
      /\ handlers[c].ruleHit.val = "Block" => handlers[c].response.val.status >= 400

\* C7: get_rules() is ordered by priority, descending.
C7_RulesByPriority ==
  \A i, j \in 1..Len(get_rules) :
    i < j => RulePriority(get_rules[i].id) >= RulePriority(get_rules[j].id)

\* C8: once a stop() has returned (no start() was called since, and is_running()
\* is false), no further connection is accepted.
C8_NoAcceptAfterStop ==
  [][stopped /\ ~is_running => \A c \in Conns : handlers[c].pc = "none" => handlers'[c].pc = "none"]_vars

\* C9: every request that was being handled when stop() wrote the flag is still
\* completed: its handler returns, having pushed its one transaction.
C9_InFlightCompletes ==
  \A c \in Conns :
    (c \in inflightAtStop) ~> (handlers[c].pc = "done" /\ appended[c] = 1)

C9_Witness ==
  \E c \in Conns :
    /\ c \in inflightAtStop
    /\ stopped
    /\ handlers[c].pc = "done"
    /\ Stored(new_v4(c)) # {}

\* C10: a start() that binds while another start() holds the listening socket fails
\* and changes nothing: the listener keeps its owner, the running flag, the
\* transactions, the filters and the rules are as before, and there is never more
\* than one bound listener or accept loop.
Listening(s) == starts[s] \in {"bound", "flag_set", "accepting"}

C10_DoubleStartFails ==
  /\ [](/\ Cardinality({s \in Starters : Listening(s)}) <= 1
        /\ \A s \in Starters : Listening(s) => listener = s)
  /\ [][\A s \in Starters :
          starts[s] = "binding" /\ starts'[s] # "binding" /\ listener # 0 =>
            /\ starts'[s] = "addr_in_use"
            /\ listener' = listener
            /\ starts'[listener] = starts[listener]
            /\ is_running' = is_running
            /\ transactions' = transactions
            /\ filters' = filters
            /\ rules' = rules]_vars

\* the proxy is running and accepting, and a second start() has failed on the bind
C10_Witness ==
  \E s, t \in Starters :
    /\ starts[s] = "accepting" /\ listener = s /\ is_running
    /\ starts[t] = "addr_in_use"

\* C11: when binding the listening address fails, the caller of the start
\* operation is handed the failure, and the failed start leaves is_running and
\* the system proxy as they were
C11_BindFailureReported ==
  [][\A s \in Starters :
       starts[s] = "binding" /\ starts'[s] \in {"addr_in_use", "bind_refused"}
         => /\ start_proxy_result(s)' = start_result(s)'
            /\ is_running' = is_running
            /\ sysProxy' = sysProxy
            /\ listener' = listener]_vars

\* a step in which one connection fails: the accept call returns an error, or a
\* connection task ends with an error
ConnFailureStep ==
  \/ \E s \in Starters : starts[s] = "accepting" /\ starts'[s] = "accept_failed"
  \/ \E c \in Conns : handlers[c].pc = "none" /\ handlers'[c].pc = "conn_failed"

\* C12: a failure of one connection leaves the acceptor accepting and every
\* other handler in flight as it was
C12_ConnFailureIsLocal ==
  [][ConnFailureStep =>
       /\ \A s \in Starters : starts[s] = "accepting" => starts'[s] = "accepting"
       /\ listener' = listener
       /\ \A c \in Conns : InFlight(c) => handlers'[c] = handlers[c]]_vars

\* a transaction with this id is in the store
InStore(id) == Stored(id) # {}

\* the favorite flag of the stored transaction with this id
FavoriteOf(id) ==
  transactions[CHOOSE i \in 1..Len(transactions) : transactions[i].id = id].is_favorite

\* C13: for an id in the store, toggle_favorite negates that transaction's flag
\* and returns the new value; the values returned by successive calls alternate
\* and a second call restores the store
C13_ToggleNegates ==
  [][\A id \in TxIds :
       InStore(id) /\ ToggleFavorite(id) =>
         /\ FavoriteOf(id)' = ~FavoriteOf(id)
         /\ lastCall'.val = FavoriteOf(id)'
         /\ (lastCall.op = "toggle_favorite" /\ lastCall.id = id
               => lastCall'.val = ~lastCall.val)
         /\ toggle_favorite(transactions', id) = transactions]_vars

C13_Witness ==
  /\ lastCall.op = "toggle_favorite"
  /\ InStore(lastCall.id)
  /\ lastCall.val = TRUE
  /\ FavoriteOf(lastCall.id)
  /\ Len(transactions) > 1

\* C14: for an id that is not in the store, toggle_favorite returns false and
\* leaves the store as it was
C14_ToggleUnknown ==
  [][\A id \in TxIds :
       ~InStore(id) /\ ToggleFavorite(id) =>
         /\ lastCall'.val = FALSE
         /\ transactions' = transactions]_vars

\* the id of a transaction removed by clear_transactions is toggled while
\* another transaction is stored
C14_Witness ==
  /\ lastCall.op = "toggle_favorite"
  /\ lastCall.id \in Conns
  /\ appended[lastCall.id] = 1
  /\ ~InStore(lastCall.id)
  /\ lastCall.val = FALSE
  /\ transactions # <<>>

\* C15: in every state the search with no constraint returns what
\* get_transactions returns
C15_EmptySearchIsList == search_transactions(NoFilter) = get_transactions

C15_Witness ==
  /\ lastCall.op = "search_transactions"
  /\ lastCall.filter = NoFilter
  /\ Len(transactions) > 1

\* p occurs in str, case-sensitively
Occurs(p, str) ==
  \E k \in 0..(Len(str) - Len(p)) : \A i \in 1..Len(p) : str[k + i] = p[i]

\* every constraint the filter supplies holds of the transaction
Satisfies(t, f) ==
  /\ f.keyword # <<>> =>
       Occurs(f.keyword, t.request.url) \/ Occurs(f.keyword, MethodChars(t.request.method))
  /\ f.method.tag = "Some" => t.request.method = f.method.val
  /\ f.status.tag = "Some" =>
       t.response.tag = "Some" /\ t.response.val.status = f.status.val
  /\ f.domain.tag = "Some" => Occurs(f.domain.val, t.request.url)

\* the k-th smallest member of a set of indices
NthOf(S, k) == CHOOSE i \in S : Cardinality({j \in S : j <= i}) = k

\* r lists the members of txs at the indices S, in their order in txs
IsSelection(r, txs, S) ==
  /\ Len(r) = Cardinality(S)
  /\ \A k \in 1..Len(r) : r[k] = txs[NthOf(S, k)]

\* C16: search_transactions returns, in store order, exactly the stored
\* transactions that satisfy every constraint supplied, and the call leaves the
\* store as it was
C16_SearchSelects ==
  /\ [](\A f \in SearchFilters :
         IsSelection(search_transactions(f), transactions,
                     {i \in 1..Len(transactions) : Satisfies(transactions[i], f)}))
  /\ [][\A f \in SearchFilters :
          SearchTransactions(f) => transactions' = transactions]_vars

\* a search with a constraint has been called where it keeps a part of the store
C16_Witness ==
  /\ lastCall.op = "search_transactions"
  /\ lastCall.filter # NoFilter
  /\ search_transactions(lastCall.filter) # <<>>
  /\ Len(search_transactions(lastCall.filter)) < Len(transactions)

\* C17: in every state get_favorites returns the transactions of
\* get_transactions whose favorite flag is true, in store order, and a stored
\* transaction is among them iff it was toggled an odd number of times since
\* it was pushed
C17_FavoritesAreToggledOdd ==
  /\ IsSelection(get_favorites, get_transactions,
                 {i \in 1..Len(get_transactions) : get_transactions[i].is_favorite})
  /\ \A i \in 1..Len(transactions) :
       (\E k \in 1..Len(get_favorites) : get_favorites[k].id = transactions[i].id)
         <=> toggled[transactions[i].id] = 1

\* get_favorites has been called where a part of the store is favorite
C17_Witness ==
  /\ lastCall.op = "get_favorites"
  /\ get_favorites # <<>>
  /\ Len(get_favorites) < Len(transactions)

\* the entries of the exported document
HarEntries == export_har.log.entries

\* C18: export_har has one entry per stored transaction, in store order, with
\* that transaction's method, URL and response status; the entries of an empty
\* store are empty; the call leaves the store as it was
C18_HarEntries ==
  /\ [](/\ Len(HarEntries) = Len(transactions)
        /\ transactions = <<>> => HarEntries = <<>>
        /\ \A i \in 1..Len(transactions) :
             /\ i \in DOMAIN HarEntries
             /\ HarEntries[i].request.method = transactions[i].request.method
             /\ HarEntries[i].request.url = transactions[i].request.url
             /\ transactions[i].response.tag = "Some" =>
                  HarEntries[i].response.status = transactions[i].response.val.status)
  /\ [][ExportHar => transactions' = transactions]_vars

\* export_har has been called on a store of transactions with different statuses
C18_Witness ==
  /\ lastCall.op = "export_har"
  /\ \E i, j \in 1..Len(transactions) :
       /\ i < j
       /\ transactions[i].request.method # transactions[j].request.method
       /\ HarEntries[i].response.status # HarEntries[j].response.status

\* the two transactions differ in nothing but the favorite flag
SameButFavorite(t, u) == [u EXCEPT !.is_favorite = t.is_favorite] = t

\* C19: unless the step is a clear_transactions, every stored transaction stays
\* at its place with its id, request, response, duration and tags, and its
\* favorite flag changes only in a toggle_favorite step on its id
C19_StoredIsFrozen ==
  [][\/ ClearTransactions
     \/ \A i \in 1..Len(transactions) :
          /\ i <= Len(transactions')
          /\ SameButFavorite(transactions[i], transactions'[i])
          /\ transactions'[i].is_favorite # transactions[i].is_favorite
               => ToggleFavorite(transactions[i].id)]_vars

\* two transactions are stored, the first one favorite, after a filter and a
\* rule were added
C19_Witness ==
  /\ Len(transactions) > 1
  /\ transactions[1].is_favorite
  /\ ~transactions[2].is_favorite
  /\ lastCall.op = "toggle_favorite"
  /\ filters # <<>>
  /\ rules # <<>>

\* C20: a clear_transactions step leaves get_transactions, get_favorites and
\* the exported entries empty and the filters, the rules and the running flag
\* as they were; no other step removes a transaction
C20_OnlyClearRemoves ==
  [][/\ ClearTransactions =>
          /\ get_transactions' = <<>>
          /\ get_favorites' = <<>>
          /\ HarEntries' = <<>>
          /\ filters' = filters
          /\ rules' = rules
          /\ is_running_read' = is_running_read
     /\ (\E id \in TxIds : InStore(id) /\ ~InStore(id)') => ClearTransactions]_vars

\* the store was filled and then cleared while the proxy runs with a filter and
\* a rule
C20_Witness ==
  /\ lastCall.op = "clear_transactions"
  /\ transactions = <<>>
  /\ \E c \in Conns : appended[c] = 1
  /\ filters # <<>>
  /\ rules # <<>>
  /\ is_running

\* the step is the retain of remove_filter(f), under the write guard
RemoveFilterApplied(f) ==
  \/ FilterWriteGranted /\ Head(filterQ) = WriteEntry("remove", f)
  \/ RemoveFilter(f) /\ filterQ = <<>> /\ filterReaders = {}

\* C21: a remove_filter of a string that is not in the filter list, and a
\* remove_rule of an id that no rule has, leave the filter list, the rule list
\* and the store as they were
C21_AbsentRemoveIsNoOp ==
  [][/\ \A f \in FilterStrings :
          RemoveFilterApplied(f) /\ (\A i \in 1..Len(filters) : filters[i] # f)
            => UNCHANGED <<filters, rules, transactions>>
     /\ \A rule_id \in RuleIds :
          RemoveRule(rule_id) /\ (\A i \in 1..Len(rules) : rules[i].id # rule_id)
            => UNCHANGED <<filters, rules, transactions>>]_vars

\* remove_rule was called with an id no rule has while a rule is listed, and the
\* remove_filter of a string that is not listed is about to take the write guard
C21_Witness ==
  /\ lastCall.op = "remove_rule"
  /\ rules # <<>>
  /\ \A i \in 1..Len(rules) : rules[i].id # lastCall.rule_id
  /\ filters # <<>>
  /\ filterReaders = {}
  /\ filterQ # <<>>
  /\ Head(filterQ).kind = "remove"
  /\ \A i \in 1..Len(filters) : filters[i] # Head(filterQ).arg
  /\ transactions # <<>>

C23_EveryOperationReturns ==
  /\ \A c \in Conns :
       InFlight(c) ~> (/\ handlers[c].pc = "done"
                       /\ appended[c] = 1
                       /\ delivered[c].tag = "Some")
  /\ (PendingWrites > 0) ~> (PendingWrites = 0)
  /\ (stopPc = "restoring") ~> (stopPc = "idle")

\* a request queued behind a waiting add_filter has been answered, the filter
\* is listed, and stop() has returned
C23_Witness ==
  /\ \E c \in Conns :
       /\ handlers[c].pc = "done"
       /\ delivered[c].tag = "Some"
       /\ InStore(new_v4(c))
       /\ \E i \in Stored(new_v4(c)) : Tagged(transactions[i])
  /\ filters # <<>>
  /\ filterQ = <<>>
  /\ stopped
  /\ stopPc = "idle"

\* the id was pushed and the store was not cleared since
PushedSinceClear(id) == \E i \in 1..Len(appendLog) : appendLog[i] = id

\* C24 as stated: when the response to a request is handed back, a get_transactions
\* made at once (no clear in between) finds the request's transaction
C24_AnsweredIsStored ==
  [][\A c \in Conns :
       delivered[c].tag = "None" /\ delivered'[c].tag = "Some"
         => \E i \in 1..Len(get_transactions') :
              get_transactions'[i].id = new_v4(c)]_vars

\* C24 amended: the transaction of a request was pushed before its response is
\* handed back, and a get_transactions made after the response finds it unless
\* the store was cleared since that push
C24_AnsweredWasStored ==
  /\ [][\A c \in Conns :
          delivered[c].tag = "None" /\ delivered'[c].tag = "Some"
            => appended[c] = 1 /\ appended'[c] = 1]_vars
  /\ [](\A c \in Conns :
          delivered[c].tag = "Some" /\ PushedSinceClear(new_v4(c))
            => \E i \in 1..Len(get_transactions) :
                 get_transactions[i].id = new_v4(c))

\* two responses were handed back; the store was cleared between the push and
\* the response of one request and holds the transaction of the other
C24_Witness ==
  \E c, d \in Conns :
    /\ delivered[c].tag = "Some" /\ delivered[d].tag = "Some"
    /\ ~PushedSinceClear(new_v4(c)) /\ ~InStore(new_v4(c))
    /\ PushedSinceClear(new_v4(d)) /\ InStore(new_v4(d))

C26_DomainIsHost ==
  fnCall.fn = "extract_domain_from_url" =>
    /\ fnCall.arg.shape \in {"authority", "absolute"}
         => to_lowercase(fnCall.ret) = to_lowercase(fnCall.arg.host)
    /\ fnCall.arg.shape = "opaque" => fnCall.ret = fnCall.arg.text

\* the listening socket is bound and its accept loop is active
AcceptorActive == \E s \in Starters : listener = s /\ starts[s] = "accepting"

\* no start() is between its bind and its accept loop and no stop() is between
\* its write of the flag and its return
NoCallInProgress ==
  /\ stopPc = "idle"
  /\ \A s \in Starters : starts[s] \notin {"binding", "bound", "flag_set"}

\* C27: whenever no start() or stop() is in the middle of its work, is_running()
\* is true iff the socket is bound and the accept loop is active: false once the
\* loop has exited on an accept error, and no loop is active while it is false
\* after stop()
C27_FlagTracksAcceptor ==
  NoCallInProgress => (is_running_read <=> AcceptorActive)

\* C28: once a start() is in its accept loop and a stop() has written the flag
\* and returned, the socket is released: the bind of the next start() finds the
\* address free
C28_StopReleasesSocket ==
  /\ stopPc = "idle"
  /\ ~is_running_read
  /\ \E s \in Starters : starts[s] = "accepting"
  => bind_ok(listener)

\* connection task c waits in the queue of the filter lock
Queued(c) == \E i \in 1..Len(filterQ) : filterQ[i] = ReadEntry(c)

\* a step of a task that holds or waits for the filter lock can be taken: the
\* head of the queue can be granted the guard, or a reader can go on to its
\* push and its return, for which it waits on no lock held across an await
LockProgress ==
  \/ \E c \in Conns : ReadGrantable(c)
  \/ filterQ # <<>> /\ Head(filterQ).kind # "read" /\ filterReaders = {}
  \/ \E c \in filterReaders : handlers[c].pc \in {"forwarding", "responding"}

\* C29: the wait-for graph of the locks has no cycle and no wait is without
\* end: whoever waits for the filter lock holds no guard, whoever holds its read
\* guard waits for no lock (the only guards alive across an await are read
\* guards of the filter lock), and whenever a task waits or holds, some step of
\* a holder or of the head of the queue is possible
C29_NoDeadlock ==
  /\ \A c \in Conns : Queued(c) => handlers[c].pc = "want_filters" /\ c \notin filterReaders
  /\ \A c \in Conns : handlers[c].pc = "want_filters" => Queued(c)
  /\ \A c \in Conns : Queued(c) => held_at(handlers[c].pc) = {}
  /\ \A c \in filterReaders : held_at(handlers[c].pc) = {Guard("filters", "read")}
  /\ \A pc \in SuspendedAt : \A g \in held_at(pc) : g.lock = "filters"
  /\ filterQ # <<>> \/ filterReaders # {} => LockProgress

\* a writer waits behind a reader that is forwarding, and a second request
\* waits behind the writer
C29_Witness ==
  /\ Len(filterQ) > 1
  /\ filterQ[1].kind # "read"
  /\ filterQ[2].kind = "read"
  /\ \E c \in filterReaders : handlers[c].pc = "forwarding"

\* C30: a request that is being forwarded holds no guard of the filter list, so
\* an add_filter or remove_filter issued when no one waits for the lock is
\* applied at once
C30_FilterWriteDoesNotWait ==
  [][\A f \in FilterStrings :
       (AddFilter(f) \/ RemoveFilter(f)) /\ filterQ = <<>> => filterQ' = <<>>]_vars

\* the calls of toggleLog that found id in the store, in the order they took effect
EffectsOn(id) == SelectSeq(toggleLog, LAMBDA e : e.id = id /\ e.found)

\* C31: concurrent toggle_favorite calls on a stored id take effect one after
\* the other, whatever the handlers append meanwhile: no toggle is lost (the
\* flag, false when pushed, is the parity of the calls that took effect), the
\* values returned alternate in the order of effect, and a call that has
\* returned has its entry
C31_TogglesAreAtomic ==
  /\ \A id \in FrameIds :
       /\ InStore(id) => (FavoriteOf(id) <=> Len(EffectsOn(id)) % 2 = 1)
       /\ \A n \in 1..Len(EffectsOn(id)) : EffectsOn(id)[n].ret <=> n % 2 = 1
  /\ Len(toggleLog) = Cardinality({k \in Togglers : togglers[k].pc = "returned"})

\* every caller has toggled the first transaction and returned: the flag is the
\* parity of the calls, and a second transaction was appended meanwhile
C31_Witness ==
  /\ \A k \in Togglers : togglers[k].pc = "returned" /\ togglers[k].id = new_v4(1)
  /\ Len(EffectsOn(new_v4(1))) = MaxTogglers
  /\ FavoriteOf(new_v4(1)) <=> MaxTogglers % 2 = 1
  /\ Len(transactions) > 1

\* how many times f is listed
CountOf(fs, f) == Cardinality({i \in 1..Len(fs) : fs[i] = f})

\* the filter f alone tags a request for url
MatchesAlone(f, url) == is_filtered_of(<<f>>, url)

\* C32: the step in which remove_filter(f) takes effect removes every occurrence
\* of f and leaves the other filters as they were, each as often as before and
\* in the same order; and a request is tagged exactly when a filter that is on
\* the list while it is handled matches it: never on account of a removed one,
\* always on account of a remaining one
C32_RemoveIsSetRemoval ==
  /\ [][\A f \in FilterStrings :
          RemoveFilterApplied(f) =>
            /\ CountOf(filters', f) = 0
            /\ \A g \in FilterStrings \ {f} : CountOf(filters', g) = CountOf(filters, g)
            /\ filters' = SelectSeq(filters, LAMBDA g : g # f)]_vars
  /\ [](\A c \in Conns :
          handlers[c].pc \in {"forwarding", "responding"} =>
            (handlers[c].is_filtered
               <=> \E i \in 1..Len(filters) :
                     MatchesAlone(filters[i], handlers[c].request.url)))

\* "db.io:443" was tagged while "IO" was listed; "IO" was removed, and the same
\* request handled now is not tagged, while "api" is listed
C32_Witness ==
  /\ filters = <<F_api>>
  /\ \E i \in 1..Len(transactions) :
       transactions[i].request = R_connect /\ Tagged(transactions[i])
  /\ \E c \in Conns :
       /\ handlers[c].pc = "responding"
       /\ handlers[c].request = R_connect
       /\ ~handlers[c].is_filtered

\* the text between the delimiters of a pattern of two characters or more
Between(pattern) == SubSeq(pattern, 2, Len(pattern) - 1)

\* C33: matches_pattern returns a boolean for every pattern and URL: for a
\* pattern with a leading and a trailing '/', whether the text between them is a
\* well-formed regular expression that matches in the URL, and a non-match for
\* the one-character pattern "/"; for any other pattern, whether the URL
\* contains it as written
C33_MatchingIsTotal ==
  fnCall.fn = "matches_pattern" =>
    LET url == fnCall.arg.url
        pattern == fnCall.arg.pattern
    IN  /\ fnCall.ret.tag = "Returned"
        /\ fnCall.ret.val \in BOOLEAN
        /\ IF starts_with(pattern, <<"/">>) /\ ends_with(pattern, <<"/">>)
             THEN IF pattern = P_slash THEN fnCall.ret.val = FALSE
                  ELSE fnCall.ret.val
                         <=> /\ regex_new(Between(pattern)).tag = "Ok"
                             /\ is_match(regex_new(Between(pattern)).val, url)
             ELSE fnCall.ret.val <=> contains(url, pattern)

\* the calls that return: the same statement without the pattern "/"
C33_TotalButForSlash ==
  fnCall.fn = "matches_pattern" /\ fnCall.arg.pattern # P_slash =>
    /\ fnCall.ret.tag = "Returned"
    /\ IF starts_with(fnCall.arg.pattern, <<"/">>) /\ ends_with(fnCall.arg.pattern, <<"/">>)
         THEN fnCall.ret.val
                <=> /\ regex_new(Between(fnCall.arg.pattern)).tag = "Ok"
                    /\ is_match(regex_new(Between(fnCall.arg.pattern)).val, fnCall.arg.url)
         ELSE fnCall.ret.val <=> contains(fnCall.arg.url, fnCall.arg.pattern)


\* the rules are in descending order of priority
SortedByPriority ==
  \A i, j \in 1..Len(routing_rules) :
    i < j => routing_rules[i].priority >= routing_rules[j].priority

\* add_rule puts the rule behind the rules of the same or a higher priority and
\* ahead of the rules of a lower one, which keep their order
AddKeepsInsertionOrder ==
  \A rule \in RouteRules :
    AddRoutingRule(rule) =>
      routing_rules' =
        SelectSeq(routing_rules, LAMBDA r : r.priority >= rule.priority)
          \o <<rule>>
          \o SelectSeq(routing_rules, LAMBDA r : r.priority < rule.priority)

\* the pattern matches the URL
Matches(url, pattern) == matches_pattern(url, pattern) = Returned(TRUE)

\* the response type of the first rule whose pattern matches, or the configured one
FirstMatchType(rs, url) ==
  LET hits == {i \in 1..Len(rs) : Matches(url, rs[i].pattern)}
  IN  IF hits = {} THEN ConfiguredType
      ELSE rs[CHOOSE i \in hits : \A j \in hits : i <= j].response_type

\* C34: the routing rules are always in descending order of priority, add_rule
\* puts a rule behind the rules of the same priority added before it, and
\* route_request answers with the response type of the first rule in that order
\* whose pattern matches the URL, or with the configured type when none matches
C34_FirstMatchByPriority ==
  /\ []SortedByPriority
  /\ [][AddKeepsInsertionOrder]_vars
  /\ [][\A url \in RouteUrls :
          RouteRequest(url) =>
            fnCall'.ret = Returned(FirstMatchType(routing_rules, url))]_vars

\* the calls that return: the order of the rules, and the answer of every
\* route_request that does not reach a rule with the pattern "/"
C34_FirstMatchUnlessPanic ==
  /\ []SortedByPriority
  /\ [][AddKeepsInsertionOrder]_vars
  /\ [][\A url \in RouteUrls :
          RouteRequest(url) =>
            \/ fnCall'.ret = Returned(FirstMatchType(routing_rules, url))
            \/ /\ fnCall'.ret = Panicked
               /\ \E i \in 1..Len(routing_rules) :
                    /\ routing_rules[i].pattern = P_slash
                    /\ \A j \in 1..(i - 1) :
                         ~Matches(url, routing_rules[j].pattern)]_vars

====
